---------------------------- MODULE Spec2Model ----------------------------
(***************************************************************************)
(* Model of streamlit_app.py: the question generation pipeline             *)
(* (parse_ai_response, generate_questions_from_ai) and the quiz session    *)
(* state machine of run_quiz_view, driven by Streamlit script runs.        *)
(*                                                                         *)
(* Conventions:                                                            *)
(*  - st.session_state is the function session_state; a key that has not   *)
(*    been assigned is outside its DOMAIN.                                 *)
(*  - score is kept in tenths of a point (1.0 is 10, 0.5 is 5); all the    *)
(*    floats the program produces are multiples of 0.5 below 2^53 and are  *)
(*    exact.                                                               *)
(*  - Python values of mixed type are tagged records [t |-> ..., v |-> ..].*)
(*  - the model's response text is a sequence of tokens: "[", "]", ",",    *)
(*    a token standing for a complete JSON object or number, or "x" for    *)
(*    any other character.                                                 *)
(***************************************************************************)
EXTENDS Integers, Sequences, FiniteSets, TLC

(***************************************************************************)
(* Bounds of the model and constants of the program.                       *)
(***************************************************************************)
MaxShort == 3          \* short batches have 0..MaxShort elements

MaxExtraCredit == 10   \* follow-ups are submitted while score < 10 * len + MaxExtraCredit

MaxNoise == 2          \* the text around an embedded array has 0..MaxNoise tokens on each side

MaxQuestions == 10     \* questions[:10]

FullCredit == 10       \* score += 1.0

HalfCredit == 5        \* score += 0.5

TopScore == 100        \* score == 10.0

PassScore == 80        \* score >= 8.0

TopMinutes == 30

PassMinutes == 20

HTTP_OK == 200

(***************************************************************************)
(* Python values.                                                          *)
(***************************************************************************)
PyNone == [t |-> "none"]

PyStr(s) == [t |-> "str", v |-> s]

PyList(s) == [t |-> "list", v |-> s]

PyDict(d) == [t |-> "dict", v |-> d]

PyNum(n) == [t |-> "num", v |-> n]

\* bool(x) for the values the program tests: None, str, list
Truthy(x) ==
    CASE x.t = "none" -> FALSE
      [] x.t = "str"  -> x.v # ""
      [] x.t = "list" -> x.v # <<>>
      [] OTHER        -> TRUE

(***************************************************************************)
(* The question blocks a response can contain.                             *)
(***************************************************************************)
QuestionKeys ==
    {"question", "options", "answer", "explanation", "secondary_question",
     "secondary_options", "secondary_answer", "secondary_explanation"}

PrimaryOptions == <<"A", "B", "C", "D">>

SecondaryOptions == <<"True", "False">>

\* a block that follows the prompt's rules; blocks differ by their number
GoodQuestion(i) ==
    [question              |-> "Q" \o ToString(i),
     options               |-> PrimaryOptions,
     answer                |-> PrimaryOptions[((i - 1) % 4) + 1],
     explanation           |-> "E" \o ToString(i),
     secondary_question    |-> "S" \o ToString(i),
     secondary_options     |-> SecondaryOptions,
     secondary_answer      |-> SecondaryOptions[((i - 1) % 2) + 1],
     secondary_explanation |-> "X" \o ToString(i)]

Without(d, k) == [f \in DOMAIN d \ {k} |-> d[f]]

GoodToken(i) == "q" \o ToString(i)

GoodTokens == {GoodToken(i) : i \in 1..(MaxQuestions + 1)}

DefectTokens ==
    {"q_badans", "q_badsec", "q_noopts", "q_noexpl", "q_nosecexpl",
     "q_nosent", "q_empty"}

ObjectTokens == GoodTokens \cup DefectTokens

NumberTokens == {"7"}

\* the dict a JSON object token decodes to
json_object(tok) ==
    CASE tok = "q_badans" -> [GoodQuestion(1) EXCEPT !.answer = "Z"]
      [] tok = "q_badsec" -> [GoodQuestion(1) EXCEPT !.secondary_answer = "Maybe"]
      [] tok = "q_noopts" -> Without(GoodQuestion(1), "options")
      [] tok = "q_noexpl" -> Without(GoodQuestion(1), "explanation")
      [] tok = "q_nosecexpl" -> Without(GoodQuestion(1), "secondary_explanation")
      [] tok = "q_nosent" -> Without(GoodQuestion(1), "secondary_question")
      [] tok = "q_empty"  -> [GoodQuestion(1) EXCEPT
                                 !.options = <<"", "B", "C", "D">>,
                                 !.answer = ""]
      [] OTHER -> GoodQuestion(CHOOSE i \in 1..(MaxQuestions + 1) :
                                   tok = GoodToken(i))

(***************************************************************************)
(* json.loads on a token sequence.                                         *)
(***************************************************************************)
JsonFail == [ok |-> FALSE, val |-> PyNone, next |-> 0]

RECURSIVE ParseValue(_, _)
RECURSIVE ParseElems(_, _, _)

\* the JSON value that starts at position i of s (1-based)
ParseValue(s, i) ==
    IF i > Len(s) THEN JsonFail
    ELSE IF s[i] = "[" THEN
        IF i + 1 <= Len(s) /\ s[i + 1] = "]"
        THEN [ok |-> TRUE, val |-> PyList(<<>>), next |-> i + 2]
        ELSE ParseElems(s, i + 1, <<>>)
    ELSE IF s[i] \in ObjectTokens THEN
        [ok |-> TRUE, val |-> PyDict(json_object(s[i])), next |-> i + 1]
    ELSE IF s[i] \in NumberTokens THEN
        [ok |-> TRUE, val |-> PyNum(7), next |-> i + 1]
    ELSE JsonFail

\* the elements of an array after its "[" and the elements in acc
ParseElems(s, i, acc) ==
    LET e == ParseValue(s, i) IN
    IF ~e.ok THEN JsonFail
    ELSE IF e.next > Len(s) THEN JsonFail
    ELSE IF s[e.next] = "," THEN ParseElems(s, e.next + 1, Append(acc, e.val))
    ELSE IF s[e.next] = "]" THEN
        [ok |-> TRUE, val |-> PyList(Append(acc, e.val)), next |-> e.next + 1]
    ELSE JsonFail

\* json.loads: the whole string must be one value
json_loads(s) ==
    LET r == ParseValue(s, 1) IN
    IF r.ok /\ r.next = Len(s) + 1
    THEN [ok |-> TRUE, val |-> r.val]
    ELSE [ok |-> FALSE, val |-> PyNone]

(***************************************************************************)
(* parse_ai_response                                                       *)
(***************************************************************************)
\* str.find and str.rfind: 0-based index, -1 when absent
find(s, c) ==
    IF \E i \in 1..Len(s) : s[i] = c
    THEN (CHOOSE i \in 1..Len(s) :
              s[i] = c /\ \A j \in 1..(i - 1) : s[j] # c) - 1
    ELSE -1

rfind(s, c) ==
    IF \E i \in 1..Len(s) : s[i] = c
    THEN (CHOOSE i \in 1..Len(s) :
              s[i] = c /\ \A j \in (i + 1)..Len(s) : s[j] # c) - 1
    ELSE -1

\* response_text[start:end]: the closing bracket is left out
Slice_Exclusive(s, start, end) == SubSeq(s, start + 1, end)

\* response_text[start:end+1]
Slice(s, start, end) == SubSeq(s, start + 1, end + 1)

\* result: raised (an exception other than JSONDecodeError escapes) or the
\* returned value (the parsed list, or None)
parse_ai_response(response_text) ==
    IF response_text.t # "str"
    THEN [raised |-> TRUE, value |-> PyNone]      \* no .find on a non-str
    ELSE LET start == find(response_text.v, "[")
             end == rfind(response_text.v, "]")
         IN IF start # -1 /\ end # -1 /\ end > start
            THEN LET r == json_loads(Slice(response_text.v, start, end))
                 IN IF r.ok
                    THEN [raised |-> FALSE, value |-> r.val]
                    ELSE [raised |-> FALSE, value |-> PyNone]
            ELSE [raised |-> FALSE, value |-> PyNone]

(***************************************************************************)
(* generate_questions_from_ai                                              *)
(***************************************************************************)
\* d.get(k, default)
DictGet(d, k, default) == IF k \in DOMAIN d THEN d[k] ELSE default

\* the three ways the call can end: return (questions, None), return
\* (None, message), or an exception that is not a RequestException
Accept(questions) ==
    [raised |-> FALSE, questions |-> questions, error |-> PyNone]

Reject(message) ==
    [raised |-> FALSE, questions |-> PyNone, error |-> PyStr(message)]

Raise == [raised |-> TRUE, questions |-> PyNone, error |-> PyNone]

\* "secondary_question" in x
ContainsSentinel(x) ==
    CASE x.t = "dict" -> [raised |-> FALSE, value |-> "secondary_question" \in DOMAIN x.v]
      [] x.t = "list" -> [raised |-> FALSE, value |-> FALSE]  \* no element is that string
      [] OTHER        -> [raised |-> TRUE, value |-> FALSE]   \* TypeError: not iterable

\* questions, with no slice
FirstTen_All(questions) == questions

\* questions[:10]
FirstTen(questions) ==
    PyList(SubSeq(questions.v, 1,
                  IF Len(questions.v) < MaxQuestions
                  THEN Len(questions.v) ELSE MaxQuestions))

\* lines 151-157: the check on the parsed value and the two returns
ValidateQuestions(questions) ==
    IF Truthy(questions) /\ questions.t = "list" /\ Len(questions.v) > 0
    THEN LET c == ContainsSentinel(questions.v[1]) IN
         IF c.raised THEN Raise
         ELSE IF c.value THEN Accept(FirstTen(questions))
         ELSE Reject("invalid question format")
    ELSE Reject("invalid question format")

\* lines 144-149: the generated text of a 200 response body
GeneratedText(response_data) ==
    CASE response_data.t = "list" ->
             IF response_data.v = <<>>
             THEN [raised |-> TRUE, unknown |-> FALSE, text |-> PyNone] \* IndexError
             ELSE IF response_data.v[1].t # "dict"
             THEN [raised |-> TRUE, unknown |-> FALSE, text |-> PyNone] \* no .get
             ELSE [raised |-> FALSE, unknown |-> FALSE,
                   text |-> DictGet(response_data.v[1].v, "generated_text", PyStr(<<>>))]
      [] response_data.t = "dict" ->
             [raised |-> FALSE, unknown |-> FALSE,
              text |-> DictGet(response_data.v, "generated_text", PyStr(<<>>))]
      [] OTHER -> [raised |-> FALSE, unknown |-> TRUE, text |-> PyNone]

\* line 151: parse_ai_response(generated_text) and what follows
FromParsed(p) == IF p.raised THEN Raise ELSE ValidateQuestions(p.value)

\* lines 144-157, for the generated text g that the body gave
FromText(g) ==
    IF g.raised THEN Raise
    ELSE IF g.unknown THEN Reject("unknown response format")
    ELSE FromParsed(parse_ai_response(g.text))

\* the body of the cached function, for one outcome of requests.post
generate_questions_from_ai(token, response) ==
    IF ~token THEN Reject("token is not set")
    ELSE IF response.exc THEN Reject("generation failed: exception")
    ELSE IF response.status_code # HTTP_OK THEN Reject("generation failed: status")
    ELSE FromText(GeneratedText(response.body))

(***************************************************************************)
(* The responses of the model endpoint that the model enumerates.          *)
(***************************************************************************)
RECURSIVE Join(_)
\* the elements of b separated by ","
Join(b) ==
    IF Len(b) = 0 THEN <<>>
    ELSE IF Len(b) = 1 THEN <<b[1]>>
    ELSE <<b[1], ",">> \o Join(Tail(b))

ArrayText(b) == <<"[">> \o Join(b) \o <<"]">>

\* n blocks, all following the rules except block d (when d > 0), which is k
Batch(n, d, k) == [i \in 1..n |-> IF i = d THEN k ELSE GoodToken(i)]

ShortBatches ==
    {Batch(n, 0, "q1") : n \in 0..MaxShort}
      \cup {Batch(n[1], n[2], k) :
               n \in {nd \in (1..MaxShort) \X (1..MaxShort) : nd[2] <= nd[1]},
               k \in DefectTokens}

FullBatches ==
    {Batch(n, 0, "q1") : n \in {MaxQuestions - 1, MaxQuestions, MaxQuestions + 1}}

Texts ==
    {ArrayText(b) : b \in ShortBatches \cup FullBatches}
      \cup {<<"x">> \o ArrayText(Batch(2, 0, "q1")) \o <<"x", "x">>,
            <<"x", "x">>,
            <<"]", "x", "[">>,
            <<"[", "x", "]">>,
            <<"[", "7", "]">>,
            <<"[", "[", "q1", "]", "]">>}

\* status codes other than 200 that the endpoint answers with
FailureStatuses == {503}

HttpResponse(status, body) ==
    [exc |-> FALSE, status_code |-> status, body |-> body]

Responses ==
    {[exc |-> TRUE, status_code |-> 0, body |-> PyNone],
     HttpResponse(HTTP_OK, PyNone),
     HttpResponse(HTTP_OK, PyList(<<>>)),
     HttpResponse(HTTP_OK, PyList(<<PyStr(<<"x">>)>>)),
     HttpResponse(HTTP_OK, PyList(<<PyDict(<<>>)>>)),
     HttpResponse(HTTP_OK, PyDict([generated_text |-> PyNone])),
     HttpResponse(HTTP_OK, PyDict([generated_text |-> PyStr(ArrayText(Batch(1, 0, "q1")))]))}
      \cup {HttpResponse(status, PyNone) : status \in FailureStatuses}
      \cup {HttpResponse(HTTP_OK, PyList(<<PyDict([generated_text |-> PyStr(t)])>>)) :
               t \in Texts}

(***************************************************************************)
(* The state.                                                              *)
(***************************************************************************)
VARIABLES
    config,         \* the module-level configuration: HF_API_TOKEN set, YOUTUBE_URL valid
    session_state,  \* st.session_state
    video_cache,    \* st.cache_data entry of get_video_details(video_id)
    gen_cache,      \* st.cache_data entry of generate_questions_from_ai(transcript, KEY_CONCEPT)
    screen,         \* what the last script run left on the page
    last_event,     \* history: the event of the last step
    tally,          \* history: questions of this attempt answered right at once, and on the follow-up
    given,          \* history: the answers taken for the question in play
    earned,         \* history: the credits the question in play has added to score
    call,           \* a direct call of one of the pipeline's functions: its arguments
    returned,       \* the outcome of that call
    posted,         \* history: the last script run sent a request to the model endpoint
    events          \* history: the events of this attempt that changed st.session_state

vars == <<config, session_state, video_cache, gen_cache, screen, last_event,
          tally, given, earned, call, returned, posted, events>>

(***************************************************************************)
(* st.session_state                                                        *)
(***************************************************************************)
Has(ss, k) == k \in DOMAIN ss

Set(ss, k, v) == [f \in DOMAIN ss \cup {k} |-> IF f = k THEN v ELSE ss[f]]

\* st.session_state.get(k, default)
Get(ss, k, default) == IF k \in DOMAIN ss THEN ss[k] ELSE default

EmptySession == <<>>

initialize_quiz_state(ss) ==
    LET s1 == Set(ss, "quiz_started", TRUE)
        s2 == Set(s1, "quiz_finished", FALSE)
        s3 == Set(s2, "q_index", 0)
        s4 == Set(s3, "score", 0)
        s5 == Set(s4, "stage", "primary")
        s6 == Set(s5, "last_primary_correct", "None")
        s7 == Set(s6, "last_secondary_correct", "None")
        s8 == Set(s7, "current_explanation", "")
    IN Set(s8, "current_secondary_explanation", "")

(***************************************************************************)
(* What a script run shows.                                                *)
(***************************************************************************)
Page(view, start_button) ==
    [view |-> view, start_button |-> start_button, warning |-> FALSE,
     exception |-> FALSE, feedback |-> "", explanation |-> "",
     score |-> -1, minutes_won |-> -1]

BlankPage == Page("blank", "absent")

\* st.button("Start Quiz") with no disabled= argument
StartButton_NeverDisabled(disabled) == "enabled"

\* st.button("Start Quiz", disabled=...)
StartButton(disabled) == IF disabled THEN "disabled" ELSE "enabled"

(***************************************************************************)
(* Events: the widget that triggered the script run and its value.         *)
(***************************************************************************)
Event(type, sel) == [type |-> type, sel |-> sel]

NoEvent == Event("none", 0)

\* radio without index=None: the first option is selected by default
radio_DefaultFirst(options, sel) ==
    IF sel \in 1..Len(options) THEN PyStr(options[sel]) ELSE PyStr(options[1])

\* st.radio(..., options=options, index=None): the option at the selected
\* position, None when nothing (or nothing that is offered) is selected
radio(options, sel) ==
    IF sel \in 1..Len(options) THEN PyStr(options[sel]) ELSE PyNone

(***************************************************************************)
(* Lines 247-263: the primary stage.                                       *)
(***************************************************************************)
\* the result of a part of the script: the session state it leaves, whether
\* it ended in st.rerun(), whether an exception escaped, and the page
Step(ss, rerun, raised, page) ==
    [ss |-> ss, rerun |-> rerun, raised |-> raised, page |-> page]

\* PrimarySubmit sending a right answer to the follow-up as well
PrimarySubmit_AlwaysFollowup(ss, q_data, user_answer, page) ==
    IF Truthy(user_answer) /\ Has(q_data, "answer") /\ Has(q_data, "explanation")
    THEN Step([ss EXCEPT !.score = IF user_answer.v = q_data.answer
                                   THEN @ + FullCredit ELSE @,
                         !.last_primary_correct =
                             IF user_answer.v = q_data.answer THEN "True" ELSE "False",
                         !.stage = "secondary",
                         !.current_explanation = q_data.explanation],
              TRUE, FALSE, page)
    ELSE Step(ss, FALSE, Truthy(user_answer), [page EXCEPT !.warning = ~Truthy(user_answer)])

\* lines 252-263: the body of `if st.form_submit_button("Submit Answer")`
PrimarySubmit(ss, q_data, user_answer, page) ==
    IF Truthy(user_answer) THEN
        IF ~Has(q_data, "answer") THEN Step(ss, FALSE, TRUE, page)
        ELSE LET s1 == IF user_answer.v = q_data.answer
                       THEN [ss EXCEPT !.score = @ + FullCredit,
                                       !.last_primary_correct = "True",
                                       !.stage = "next_q"]
                       ELSE [ss EXCEPT !.last_primary_correct = "False",
                                       !.stage = "secondary"]
             IN IF ~Has(q_data, "explanation") THEN Step(s1, FALSE, TRUE, page)
                ELSE Step([s1 EXCEPT !.current_explanation = q_data.explanation],
                          TRUE, FALSE, page)
    ELSE Step(ss, FALSE, FALSE, [page EXCEPT !.warning = TRUE])

PrimaryStage(ss, q_data, ev, page) ==
    IF ~(Has(q_data, "question") /\ Has(q_data, "options"))
    THEN Step(ss, FALSE, TRUE, page)                       \* KeyError
    ELSE LET form == [page EXCEPT !.view = "primary"] IN
         IF ev.type = "submit_primary"
         THEN PrimarySubmit(ss, q_data, radio(q_data.options, ev.sel), form)
         ELSE Step(ss, FALSE, FALSE, form)

(***************************************************************************)
(* Lines 266-286: the secondary stage.                                     *)
(***************************************************************************)
\* SecondarySubmit giving the full point for a right follow-up
SecondarySubmit_FullCredit(ss, q_data, user_answer_sec, page) ==
    IF Truthy(user_answer_sec) /\ Has(q_data, "secondary_answer")
                               /\ Has(q_data, "secondary_explanation")
    THEN Step([ss EXCEPT !.score = IF user_answer_sec.v = q_data.secondary_answer
                                   THEN @ + FullCredit ELSE @,
                         !.last_secondary_correct =
                             IF user_answer_sec.v = q_data.secondary_answer
                             THEN "True" ELSE "False",
                         !.current_secondary_explanation = q_data.secondary_explanation,
                         !.stage = "next_q"],
              TRUE, FALSE, page)
    ELSE Step(ss, FALSE, Truthy(user_answer_sec),
              [page EXCEPT !.warning = ~Truthy(user_answer_sec)])

\* lines 276-286: the body of `if st.form_submit_button("Submit Follow-up")`
SecondarySubmit(ss, q_data, user_answer_sec, page) ==
    IF Truthy(user_answer_sec) THEN
        IF ~Has(q_data, "secondary_answer") THEN Step(ss, FALSE, TRUE, page)
        ELSE LET s1 == IF user_answer_sec.v = q_data.secondary_answer
                       THEN [ss EXCEPT !.score = @ + HalfCredit,
                                       !.last_secondary_correct = "True"]
                       ELSE [ss EXCEPT !.last_secondary_correct = "False"]
             IN IF ~Has(q_data, "secondary_explanation")
                THEN Step(s1, FALSE, TRUE, page)
                ELSE Step([s1 EXCEPT
                              !.current_secondary_explanation = q_data.secondary_explanation,
                              !.stage = "next_q"],
                          TRUE, FALSE, page)
    ELSE Step(ss, FALSE, FALSE, [page EXCEPT !.warning = TRUE])

SecondaryStage(ss, q_data, ev, page) ==
    LET shown == [page EXCEPT !.explanation = ss.current_explanation] IN
    IF ~(Has(q_data, "secondary_question") /\ Has(q_data, "secondary_options"))
    THEN Step(ss, FALSE, TRUE, shown)                      \* KeyError
    ELSE LET form == [shown EXCEPT !.view = "secondary"] IN
         IF ev.type = "submit_secondary"
         THEN SecondarySubmit(ss, q_data, radio(q_data.secondary_options, ev.sel), form)
         ELSE Step(ss, FALSE, FALSE, form)

(***************************************************************************)
(* Lines 289-309: feedback and moving on.                                  *)
(***************************************************************************)
\* lines 290-299
Feedback(ss, page) ==
    IF ss.last_primary_correct = "True"
    THEN [page EXCEPT !.feedback = "correct",
                      !.explanation = ss.current_explanation]
    ELSE IF ss.last_secondary_correct = "True"
    THEN [page EXCEPT !.feedback = "good recovery",
                      !.explanation = ss.current_secondary_explanation]
    ELSE [page EXCEPT !.feedback = "also incorrect",
                      !.explanation = ss.current_secondary_explanation]

\* NextQuestion comparing with len(q_list) instead of len(q_list) - 1
NextQuestion_OffByOne(ss, q_index, q_list) ==
    IF q_index < Len(q_list)
    THEN [ss EXCEPT !.q_index = @ + 1,
                    !.stage = "primary",
                    !.last_primary_correct = "None",
                    !.last_secondary_correct = "None"]
    ELSE [ss EXCEPT !.quiz_finished = TRUE]

\* lines 302-308: the body of `if st.button("Next Question")`
NextQuestion(ss, q_index, q_list) ==
    IF q_index < Len(q_list) - 1
    THEN [ss EXCEPT !.q_index = @ + 1,
                    !.stage = "primary",
                    !.last_primary_correct = "None",
                    !.last_secondary_correct = "None"]
    ELSE [ss EXCEPT !.quiz_finished = TRUE]

NextStage(ss, q_index, q_list, ev, page) ==
    LET shown == [Feedback(ss, page) EXCEPT !.view = "next_q"] IN
    IF ev.type = "next"
    THEN Step(NextQuestion(ss, q_index, q_list), TRUE, FALSE, shown)
    ELSE Step(ss, FALSE, FALSE, shown)

(***************************************************************************)
(* Lines 228-332: the quiz and the results.                                *)
(***************************************************************************)
\* q_list[q_index] as the dict the stages subscript; subscripting anything
\* else with a key raises, as a dict without that key does
QData(q_list, q_index) ==
    IF q_list[q_index + 1].t = "dict" THEN q_list[q_index + 1].v ELSE <<>>

\* lines 228-309
MainLogic(ss, ev, page) ==
    IF ss.quiz_started /\ ~Get(ss, "quiz_finished", FALSE) THEN
        IF ~Has(ss, "questions") \/ ss.questions = <<>>
        THEN Step(ss, FALSE, FALSE, [page EXCEPT !.view = "not_loaded"])
        ELSE IF ss.q_index >= Len(ss.questions)
        THEN Step([ss EXCEPT !.quiz_finished = TRUE], TRUE, FALSE, page)
        ELSE LET q_data == QData(ss.questions, ss.q_index) IN
             CASE ss.stage = "primary" -> PrimaryStage(ss, q_data, ev, page)
               [] ss.stage = "secondary" -> SecondaryStage(ss, q_data, ev, page)
               [] ss.stage = "next_q" ->
                      NextStage(ss, ss.q_index, ss.questions, ev, page)
               [] OTHER -> Step(ss, FALSE, FALSE, page)
    ELSE Step(ss, FALSE, FALSE, page)

\* minutes_won with the first tier from 8.0 on
minutes_won_TopFromPass(score) ==
    IF score >= PassScore THEN TopMinutes
    ELSE 0

\* minutes_won with score > 8.0 for the second tier
minutes_won_StrictPass(score) ==
    IF score = TopScore THEN TopMinutes
    ELSE IF score > PassScore THEN PassMinutes
    ELSE 0

\* lines 316-321
minutes_won(score) ==
    IF score = TopScore THEN TopMinutes
    ELSE IF score >= PassScore THEN PassMinutes
    ELSE 0

\* lines 312-332
Results(ss, page) ==
    IF Get(ss, "quiz_finished", FALSE)
    THEN [page EXCEPT !.view = "results",
                      !.score = ss.score,
                      !.minutes_won = minutes_won(ss.score)]
    ELSE page

(***************************************************************************)
(* One run of the script, with the runs its st.rerun() calls start.        *)
(***************************************************************************)
FetchOutcomes == {"ok", "failed"}

\* get_video_details under st.cache_data: the cached outcome, else the
\* outcome of the fetch (errors are returned, so they are cached too)
get_video_details(cache, fetched) == IF cache # "none" THEN cache ELSE fetched

NoCache == [valid |-> FALSE, result |-> Raise]

\* the state a run leaves behind; posted: the run reached requests.post
Done(ss, vc, gc, page) ==
    [ss |-> ss, vc |-> vc, gc |-> gc, page |-> page, posted |-> FALSE]

\* the run that ended as r called requests.post (line 137) iff p
Posted(r, p) == [r EXCEPT !.posted = p]

RECURSIVE RunScript(_, _, _, _, _, _)

\* lines 219-225: after generate_questions_from_ai has returned r or raised
AfterGenerate(cfg, ss, vc, gc, r, in, page) ==
    IF r.raised
    THEN Done(ss, vc, gc, [page EXCEPT !.exception = TRUE])
    ELSE IF Truthy(r.error)
    THEN Done([ss EXCEPT !.quiz_started = FALSE], vc,
              [valid |-> TRUE, result |-> r],
              [page EXCEPT !.view = "start_error"])
    ELSE RunScript(cfg, Set(ss, "questions", r.questions.v), vc,
                   [valid |-> TRUE, result |-> r], NoEvent, in)

\* lines 212-218: after initialize_quiz_state; d2 is the outcome of the
\* second get_video_details call
AfterInitialize(cfg, ss, d2, gc, in, page) ==
    IF d2 # "ok"
    THEN Done([ss EXCEPT !.quiz_started = FALSE], d2, gc,
              [page EXCEPT !.view = "start_error"])
    ELSE Posted(AfterGenerate(cfg, ss, d2, gc,
                              IF gc.valid THEN gc.result
                              ELSE generate_questions_from_ai(cfg.token, in.response),
                              in, page),
                ~gc.valid /\ cfg.token)

\* lines 210-225: the body of `if st.button("Start Quiz", ...)`
StartQuiz(cfg, ss, vc, gc, in, page) ==
    AfterInitialize(cfg, initialize_quiz_state(ss),
                    IF in.refetch = "hit" THEN vc ELSE in.refetch,
                    gc, in, page)

\* the end of a run whose main logic gave m: st.rerun() starts the next
\* run, an exception ends the run, otherwise the results are rendered
AfterMain(cfg, m, vc, gc, in) ==
    IF m.rerun THEN RunScript(cfg, m.ss, vc, gc, NoEvent, in)
    ELSE IF m.raised THEN Done(m.ss, vc, gc, [m.page EXCEPT !.exception = TRUE])
    ELSE Done(m.ss, vc, gc, Results(m.ss, m.page))

\* lines 206-332, with the session state ss that line 207 leaves
FromStartButton(cfg, ss, vc, gc, ev, in) ==
    IF ev.type = "start"
    THEN StartQuiz(cfg, ss, vc, gc, in,
                   Page("welcome", StartButton(ss.quiz_started)))
    ELSE AfterMain(cfg,
                   MainLogic(ss, ev, Page("welcome", StartButton(ss.quiz_started))),
                   vc, gc, in)

\* lines 192-332, with the outcome d1 of the first get_video_details call
AfterDetails(cfg, ss, d1, gc, ev, in) ==
    IF d1 # "ok" THEN Done(ss, d1, gc, Page("fetch_error", "absent"))
    ELSE FromStartButton(cfg,
                         IF Has(ss, "quiz_started") THEN ss
                         ELSE Set(ss, "quiz_started", FALSE),
                         d1, gc, ev, in)

\* lines 178-332: run_quiz_view for one event
RunScript(cfg, ss, vc, gc, ev, in) ==
    IF ~cfg.token THEN Done(ss, vc, gc, Page("no_key", "absent"))
    ELSE IF ~cfg.video_id THEN Done(ss, vc, gc, Page("bad_url", "absent"))
    ELSE AfterDetails(cfg, ss, get_video_details(vc, in.fetch), gc, ev, in)

(***************************************************************************)
(* History of the attempt.                                                 *)
(***************************************************************************)
NoTally == [correct |-> 0, recovered |-> 0]

NoneGiven == [primary |-> "none", secondary |-> "none"]

NoneEarned == [full |-> FALSE, half |-> FALSE]

Mark(right) == IF right THEN "right" ELSE "wrong"

\* the credits that a step from session state ss to session state t added
EarnedAfter(ss, t, e) ==
    IF Has(ss, "score") /\ Has(t, "score")
    THEN [full |-> e.full \/ t.score = ss.score + FullCredit,
          half |-> e.half \/ t.score = ss.score + HalfCredit]
    ELSE e

\* the count of the events that changed the session state, after a step
\* from session state ss to session state t
Counted(ss, t, n) == IF t # ss THEN n + 1 ELSE n

(***************************************************************************)
(* The steps: one per user event, each a whole script run.                 *)
(***************************************************************************)
NoResponse == [exc |-> TRUE, status_code |-> 0, body |-> PyNone]

\* the outcomes a run draws from its environment
Inputs(fetch, refetch, response) ==
    [fetch |-> fetch, refetch |-> refetch, response |-> response]

\* no function of the pipeline is called directly
NoCall == [fn |-> "none"]

NotReturned == [done |-> FALSE]

\* the run's effect on the program's state
Leaves(r, ev) ==
    /\ session_state' = r.ss
    /\ video_cache' = r.vc
    /\ gen_cache' = r.gc
    /\ screen' = r.page
    /\ last_event' = ev
    /\ posted' = r.posted
    /\ UNCHANGED <<config, call, returned>>

Init ==
    /\ config \in [token : BOOLEAN, video_id : BOOLEAN]
    /\ session_state = EmptySession
    /\ video_cache = "none"
    /\ gen_cache = NoCache
    /\ screen = BlankPage
    /\ last_event = NoEvent
    /\ tally = NoTally
    /\ given = NoneGiven
    /\ earned = NoneEarned
    /\ call = NoCall
    /\ returned = NotReturned
    /\ posted = FALSE
    /\ events = 0

\* the run of the script that the event ev starts
Run(ev, fetch, refetch, response) ==
    RunScript(config, session_state, video_cache, gen_cache, ev,
              Inputs(fetch, refetch, response))

\* the script runs with no widget triggered (first load of the session,
\* "Rerun" of the page)
Rerun ==
    \E fetch \in FetchOutcomes :
        /\ Leaves(Run(Event("rerun", 0), fetch, "hit", NoResponse), Event("rerun", 0))
        /\ UNCHANGED <<tally, given, earned, events>>

\* the browser page is reloaded: a new session, the caches are kept
Reload ==
    /\ screen # BlankPage
    /\ \E fetch \in FetchOutcomes :
        /\ Leaves(RunScript(config, EmptySession, video_cache, gen_cache,
                            Event("reload", 0), Inputs(fetch, "hit", NoResponse)),
                  Event("reload", 0))
        /\ tally' = NoTally
        /\ given' = NoneGiven
        /\ earned' = NoneEarned
        /\ events' = 0

\* a run that reached line 210 starts a new attempt
AfterStart(r) ==
    /\ Leaves(r, Event("start", 0))
    /\ tally' = IF r.page.view # "fetch_error" THEN NoTally ELSE tally
    /\ given' = IF r.page.view # "fetch_error" THEN NoneGiven ELSE given
    /\ earned' = IF r.page.view # "fetch_error" THEN NoneEarned ELSE earned
    /\ events' = IF r.page.view # "fetch_error" THEN 0 ELSE events

\* "Start Quiz" is pressed
PressStart ==
    /\ screen.start_button = "enabled"
    /\ \E fetch \in FetchOutcomes, refetch \in FetchOutcomes \cup {"hit"},
          response \in Responses :
        AfterStart(Run(Event("start", 0), fetch, refetch, response))

\* the answer is taken: the run reached the comparison with the stored
\* answer, for the first time for this question
Taken(r, stage, user_answer, q_data, key, before) ==
    /\ r.page.view # "fetch_error"
    /\ session_state.stage = stage
    /\ Truthy(user_answer)
    /\ Has(q_data, key)
    /\ before = "none"

AfterAnswer(r, ev, user_answer, q_data, taken) ==
    /\ Leaves(r, ev)
    /\ given' = IF taken
                THEN [given EXCEPT !.primary = Mark(user_answer.v = q_data.answer)]
                ELSE given
    /\ tally' = IF taken /\ user_answer.v = q_data.answer
                THEN [tally EXCEPT !.correct = @ + 1] ELSE tally
    /\ earned' = EarnedAfter(session_state, r.ss, earned)
    /\ events' = Counted(session_state, r.ss, events)

AnswerAt(r, sel, q_data) ==
    AfterAnswer(r, Event("submit_primary", sel), radio(q_data.options, sel), q_data,
                Taken(r, "primary", radio(q_data.options, sel), q_data, "answer",
                      given.primary))

\* "Submit Answer" is pressed with the radio at position sel (0: nothing
\* selected; a position past the options: not an offered option)
SubmitAnswer ==
    /\ screen.view = "primary"
    /\ \E fetch \in FetchOutcomes,
          sel \in 0..(Len(QData(session_state.questions, session_state.q_index).options) + 1) :
        AnswerAt(Run(Event("submit_primary", sel), fetch, "hit", NoResponse), sel,
                 QData(session_state.questions, session_state.q_index))

AfterFollowup(r, ev, user_answer_sec, q_data, taken) ==
    /\ Leaves(r, ev)
    /\ given' = IF taken
                THEN [given EXCEPT
                         !.secondary = Mark(user_answer_sec.v = q_data.secondary_answer)]
                ELSE given
    /\ tally' = IF /\ taken
                   /\ user_answer_sec.v = q_data.secondary_answer
                   /\ given.primary = "wrong"
                THEN [tally EXCEPT !.recovered = @ + 1] ELSE tally
    /\ earned' = EarnedAfter(session_state, r.ss, earned)
    /\ events' = Counted(session_state, r.ss, events)

FollowupAt(r, sel, q_data) ==
    AfterFollowup(r, Event("submit_secondary", sel),
                  radio(q_data.secondary_options, sel), q_data,
                  Taken(r, "secondary", radio(q_data.secondary_options, sel), q_data,
                        "secondary_answer", given.secondary))

\* "Submit Follow-up" is pressed with the radio at position sel
SubmitFollowup ==
    /\ screen.view = "secondary"
    /\ session_state.score <
           FullCredit * Len(session_state.questions) + MaxExtraCredit
    /\ \E fetch \in FetchOutcomes,
          sel \in 0..(Len(QData(session_state.questions,
                                session_state.q_index).secondary_options) + 1) :
        FollowupAt(Run(Event("submit_secondary", sel), fetch, "hit", NoResponse), sel,
                   QData(session_state.questions, session_state.q_index))

AfterNext(r) ==
    /\ Leaves(r, Event("next", 0))
    /\ given' = IF r.ss.q_index # session_state.q_index THEN NoneGiven ELSE given
    /\ earned' = IF r.ss.q_index # session_state.q_index THEN NoneEarned
                 ELSE EarnedAfter(session_state, r.ss, earned)
    /\ events' = Counted(session_state, r.ss, events)
    /\ UNCHANGED tally

\* "Next Question" is pressed
PressNext ==
    /\ screen.view = "next_q"
    /\ \E fetch \in FetchOutcomes :
        AfterNext(Run(Event("next", 0), fetch, "hit", NoResponse))

AfterRetake(r) ==
    /\ Leaves(r, Event("retake", 0))
    /\ earned' = EarnedAfter(session_state, r.ss, earned)
    /\ events' = Counted(session_state, r.ss, events)
    /\ UNCHANGED <<tally, given>>

\* "Retake Quiz" is pressed
PressRetake ==
    /\ screen.view = "results"
    /\ \E fetch \in FetchOutcomes :
        AfterRetake(Run(Event("retake", 0), fetch, "hit", NoResponse))

\* @st.cache_data(ttl=3600): the transcript entry expires
TranscriptExpires ==
    /\ video_cache # "none"
    /\ video_cache' = "none"
    /\ last_event' = Event("expire", 0)
    /\ UNCHANGED <<config, session_state, gen_cache, screen, tally, given, earned,
                   call, returned, posted, events>>

\* @st.cache_data(ttl=600): the questions entry expires
QuestionsExpire ==
    /\ gen_cache.valid
    /\ gen_cache' = NoCache
    /\ last_event' = Event("expire", 0)
    /\ UNCHANGED <<config, session_state, video_cache, screen, tally, given, earned,
                   call, returned, posted, events>>

Next ==
    \/ Rerun
    \/ Reload
    \/ PressStart
    \/ SubmitAnswer
    \/ SubmitFollowup
    \/ PressNext
    \/ PressRetake
    \/ TranscriptExpires
    \/ QuestionsExpire

Spec == Init /\ [][Next]_vars

(***************************************************************************)
(* The functions of the pipeline called directly, one call per behaviour:  *)
(* parse_ai_response on a text, generate_questions_from_ai on an outcome   *)
(* of requests.post.                                                       *)
(***************************************************************************)
NoiseTokens == {"x", "[", "]", ","}

RECURSIVE Noise(_)
\* the token sequences of length 0..n
Noise(n) ==
    IF n = 0 THEN {<<>>}
    ELSE Noise(n - 1) \cup {Append(t, c) : t \in {u \in Noise(n - 1) : Len(u) = n - 1},
                                             c \in NoiseTokens}

\* the arrays that the texts embed
EmbeddedBatches == {Batch(n, 0, "q1") : n \in 0..MaxShort}

\* the text of a call of parse_ai_response
TextOf(c) ==
    IF c.embedded THEN c.pre \o ArrayText(c.batch) \o c.post ELSE c.pre \o c.post

ParseCalls ==
    {[fn |-> "parse_ai_response", embedded |-> TRUE, pre |-> pre, batch |-> b, post |-> post] :
         pre \in Noise(MaxNoise), b \in EmbeddedBatches, post \in Noise(MaxNoise)}
      \cup {[fn |-> "parse_ai_response", embedded |-> FALSE, pre |-> pre, batch |-> <<>>,
             post |-> post] :
               pre \in Noise(MaxNoise), post \in Noise(MaxNoise)}

GenerateCalls ==
    {[fn |-> "generate_questions_from_ai", token |-> token, response |-> response] :
         token \in BOOLEAN, response \in Responses}

FunctionsInit ==
    /\ config = [token |-> TRUE, video_id |-> TRUE]
    /\ session_state = EmptySession
    /\ video_cache = "none"
    /\ gen_cache = NoCache
    /\ screen = BlankPage
    /\ last_event = NoEvent
    /\ tally = NoTally
    /\ given = NoneGiven
    /\ earned = NoneEarned
    /\ call \in ParseCalls \cup GenerateCalls
    /\ returned = NotReturned
    /\ posted = FALSE
    /\ events = 0

CallParse ==
    /\ call.fn = "parse_ai_response"
    /\ ~returned.done
    /\ returned' = [done |-> TRUE, result |-> parse_ai_response(PyStr(TextOf(call)))]
    /\ UNCHANGED <<config, session_state, video_cache, gen_cache, screen, last_event,
                   tally, given, earned, call, posted, events>>

CallGenerate ==
    /\ call.fn = "generate_questions_from_ai"
    /\ ~returned.done
    /\ returned' = [done |-> TRUE,
                    result |-> generate_questions_from_ai(call.token, call.response)]
    /\ UNCHANGED <<config, session_state, video_cache, gen_cache, screen, last_event,
                   tally, given, earned, call, posted, events>>

FunctionsNext ==
    \/ CallParse
    \/ CallGenerate

SpecFunctions == FunctionsInit /\ [][FunctionsNext]_vars

(***************************************************************************)
(* Views of the state used by the properties.                              *)
(***************************************************************************)
Started == Has(session_state, "quiz_started") /\ session_state.quiz_started

Finished == Get(session_state, "quiz_finished", FALSE)

FinishedNext == Get(session_state', "quiz_finished", FALSE)

\* the question in play
Current == QData(session_state.questions, session_state.q_index)

\* the credit the recorded answers of this attempt are worth
CreditDue == FullCredit * tally.correct + HalfCredit * tally.recovered

Range(f) == {f[i] : i \in DOMAIN f}

\* a block with the eight fields and the two exact-match constraints
WellFormed(q) ==
    /\ q.t = "dict"
    /\ QuestionKeys \subseteq DOMAIN q.v
    /\ q.v.answer \in Range(q.v.options)
    /\ q.v.secondary_answer \in Range(q.v.secondary_options)

\* the reward tiers of the reward resolver
Reward(score) ==
    IF score = 100 THEN 30
    ELSE IF 80 <= score /\ score < 100 THEN 20
    ELSE 0

\* the step is a submit of the primary (secondary) form that the script
\* run processed
PrimarySubmitted ==
    /\ screen.view = "primary"
    /\ session_state.stage = "primary"
    /\ last_event'.type = "submit_primary"
    /\ screen'.view # "fetch_error"

SecondarySubmitted ==
    /\ screen.view = "secondary"
    /\ session_state.stage = "secondary"
    /\ last_event'.type = "submit_secondary"
    /\ screen'.view # "fetch_error"

ContinuePressed ==
    /\ screen.view = "next_q"
    /\ session_state.stage = "next_q"
    /\ last_event'.type = "next"
    /\ screen'.view # "fetch_error"

(***************************************************************************)
(* Properties.                                                             *)
(***************************************************************************)
\* C1: in every state of an attempt score is the sum of the credits of the
\* answers taken so far (1.0 per question answered right at once, 0.5 per
\* question answered right on the follow-up), a multiple of 0.5, and at
\* most len(questions); each question is credited at most once.
C1_ScoreIsSumOfCredits ==
    Has(session_state, "score") =>
        /\ session_state.score = CreditDue
        /\ session_state.score % HalfCredit = 0
        /\ Has(session_state, "questions") =>
               /\ session_state.score <= FullCredit * Len(session_state.questions)
               /\ tally.correct + tally.recovered <= session_state.q_index + 1

\* C2: a submitted primary option equal to the answer sets
\* last_primary_correct to True and the stage to next_q; any other submitted
\* option sets last_primary_correct to False and the stage to secondary.
C2_PrimaryAnswerDecidesStage ==
    [][(PrimarySubmitted /\ last_event'.sel \in 1..Len(Current.options)) =>
           IF Current.options[last_event'.sel] = Current.answer
           THEN /\ session_state'.last_primary_correct = "True"
                /\ session_state'.stage = "next_q"
           ELSE /\ session_state'.last_primary_correct = "False"
                /\ session_state'.stage = "secondary"]_vars

\* C3: quiz_finished becomes true exactly on "Next Question" in stage
\* next_q at the last index: that event always sets it, and nothing else
\* (an answer, an earlier continue, the index guard of line 236) does.
C3_FinishedOnlyByLastContinue ==
    [][/\ (FinishedNext /\ ~Finished) =>
              /\ ContinuePressed
              /\ session_state.q_index = Len(session_state.questions) - 1
              /\ session_state'.q_index = session_state.q_index
       /\ (ContinuePressed
             /\ session_state.q_index = Len(session_state.questions) - 1) =>
              FinishedNext]_vars

C3_Witness ==
    /\ Finished
    /\ last_event.type = "next"
    /\ session_state.q_index = Len(session_state.questions) - 1
    /\ Len(session_state.questions) > 1

\* C4: every question of the stored question list has the eight fields,
\* answer in options and secondary_answer in secondary_options.
C4_AcceptedQuestionsAreWellFormed ==
    Has(session_state, "questions") =>
        \A i \in 1..Len(session_state.questions) :
            WellFormed(session_state.questions[i])

\* C5: the minutes shown on the results page are 30 for score 10.0, 20 for
\* 8.0 <= score < 10.0, and 0 otherwise.
C5_RewardTiers ==
    screen.view = "results" =>
        /\ screen.score = session_state.score
        /\ screen.minutes_won = Reward(session_state.score)

C5_Witness ==
    /\ screen.view = "results"
    /\ session_state.score = PassScore
    /\ screen.minutes_won = PassMinutes

\* C6: a 10-question attempt played to the results with p primaries right
\* and s follow-ups right ends with score p * 1.0 + s * 0.5 and the reward
\* of that score, whatever the order of the answers.
C6_FinalScoreAndReward ==
    (screen.view = "results" /\ Len(session_state.questions) = MaxQuestions) =>
        /\ session_state.score = CreditDue
        /\ screen.score = CreditDue
        /\ screen.minutes_won = Reward(CreditDue)

C6_Witness ==
    /\ screen.view = "results"
    /\ Len(session_state.questions) = MaxQuestions
    /\ tally = [correct |-> 5, recovered |-> 3]
    /\ session_state.score = 65
    /\ screen.minutes_won = 0

\* C7: the session is marked started only with a non-empty question list
\* stored.
C7_StartedOnlyWithQuestions ==
    Started =>
        /\ Has(session_state, "questions")
        /\ session_state.questions # <<>>

\* C8: a submit with nothing selected, or with a selection that is not an
\* offered option, leaves the session state as it was.
C8_InvalidSelectionChangesNothing ==
    [][/\ (PrimarySubmitted /\ last_event'.sel \notin 1..Len(Current.options)) =>
              session_state' = session_state
       /\ (SecondarySubmitted
             /\ last_event'.sel \notin 1..Len(Current.secondary_options)) =>
              session_state' = session_state]_vars

C8_Witness ==
    /\ last_event.type = "submit_secondary"
    /\ screen.view = "secondary"
    /\ screen.warning
    /\ last_event.sel = Len(Current.secondary_options) + 1
    /\ session_state.stage = "secondary"

\* C9: every offered option has a transition: a submitted primary option
\* moves to next_q or secondary, a submitted follow-up option moves to
\* next_q, and "Next Question" moves to the next question or finishes.
C9_EveryValidInputHasATransition ==
    [][/\ (PrimarySubmitted /\ last_event'.sel \in 1..Len(Current.options)) =>
              session_state'.stage \in {"next_q", "secondary"}
       /\ (SecondarySubmitted
             /\ last_event'.sel \in 1..Len(Current.secondary_options)) =>
              session_state'.stage = "next_q"
       /\ ContinuePressed =>
              \/ FinishedNext
              \/ /\ session_state'.stage = "primary"
                 /\ session_state'.q_index = session_state.q_index + 1]_vars

\* C10: the stage becomes secondary only by a wrong primary answer, the
\* first answer taken for the question in play, and no question adds both
\* 1.0 and 0.5 to score.
C10_SecondaryOnlyAfterWrongPrimary ==
    [][/\ (/\ Get(session_state', "stage", "") = "secondary"
           /\ Get(session_state, "stage", "") # "secondary") =>
              /\ PrimarySubmitted
              /\ last_event'.sel \in 1..Len(Current.options)
              /\ Current.options[last_event'.sel] # Current.answer
              /\ session_state'.q_index = session_state.q_index
              /\ session_state'.last_primary_correct = "False"
              /\ given.primary = "none"
              /\ given'.primary = "wrong"
       /\ ~(earned'.full /\ earned'.half)]_vars

C10_Witness ==
    /\ Get(session_state, "stage", "") = "secondary"
    /\ last_event.type = "submit_primary"
    /\ given.primary = "wrong"
    /\ session_state.q_index > 0

(***************************************************************************)
(* Views of the calls used by the properties.                              *)
(***************************************************************************)
\* the value that the array text of batch b stands for
ArrayValue(b) == PyList([i \in 1..Len(b) |-> PyDict(json_object(b[i]))])

\* the text has a "[" with a "]" somewhere after it
HasBracketPair(text) ==
    \E i \in 1..Len(text), j \in 1..Len(text) :
        i < j /\ text[i] = "[" /\ text[j] = "]"

Parsed == call.fn = "parse_ai_response" /\ returned.done

Generated == call.fn = "generate_questions_from_ai" /\ returned.done

\* C11 as stated: the array embedded in a text is returned exactly,
\* whatever the text before and after it, and a text with no "[" ... "]"
\* pair gives None.
C11_ArrayRecoveredFromAnyNoise ==
    Parsed =>
        /\ ~returned.result.raised
        /\ call.embedded => returned.result.value = ArrayValue(call.batch)
        /\ ~HasBracketPair(TextOf(call)) => returned.result.value = PyNone

NoToken(text, c) == \A i \in 1..Len(text) : text[i] # c

\* C11, amended: the array embedded in a text is returned exactly when the
\* text before it has no "[" and the text after it has no "]"; a text with
\* no "[" ... "]" pair gives None.
C11_ArrayRecoveredFromBracketFreeNoise ==
    Parsed =>
        /\ ~returned.result.raised
        /\ (call.embedded /\ NoToken(call.pre, "[") /\ NoToken(call.post, "]"))
               => returned.result.value = ArrayValue(call.batch)
        /\ ~HasBracketPair(TextOf(call)) => returned.result.value = PyNone

C11_Witness ==
    /\ Parsed
    /\ call.embedded
    /\ Len(call.batch) >= 2
    /\ call.pre = <<"x", "]">>
    /\ call.post = <<"[", "x">>
    /\ returned.result.value = ArrayValue(call.batch)

\* C12: whatever requests.post gives (an exception of requests, a status
\* other than 200, a 200 body that is a list, a dict or anything else),
\* generate_questions_from_ai returns, and returns either questions and no
\* error or an error and no questions.
C12_GenerateReturnsExactlyOne ==
    Generated =>
        /\ ~returned.result.raised
        /\ \/ returned.result.questions.t = "list" /\ returned.result.error.t = "none"
           \/ returned.result.questions.t = "none" /\ returned.result.error.t = "str"

C14_RetakeRestarts ==
    [][(Finished /\ screen.view = "results" /\ last_event'.type = "retake"
          /\ screen'.view # "fetch_error") =>
           \/ screen'.start_button = "enabled"
           \/ /\ ~FinishedNext
              /\ session_state'.q_index = 0
              /\ session_state'.score = 0
              /\ session_state'.stage = "primary"]_vars

\* C15: when a generation attempt has failed and Start Quiz is pressed
\* again for the same transcript and key concept, the run sends a new
\* request to the model endpoint instead of replaying the earlier failure.
C15_RetryPostsAgain ==
    [][(/\ screen.view = "start_error"
        /\ gen_cache.valid
        /\ Truthy(gen_cache.result.error)
        /\ last_event'.type = "start"
        /\ screen'.view # "fetch_error"
        /\ video_cache' = "ok") => posted']_vars

\* C16: while a started session holds its questions, 0 <= q_index <
\* len(questions); q_index changes only when Next Question is pressed in
\* stage next_q, then by exactly one, and never when an answer is submitted.
C16_IndexInRangeAndMovedOnlyByContinue ==
    /\ [](Started /\ Has(session_state, "questions") =>
             /\ 0 <= session_state.q_index
             /\ session_state.q_index < Len(session_state.questions))
    /\ [][(/\ Started
           /\ Has(session_state, "questions")
           /\ Has(session_state', "q_index")
           /\ session_state'.q_index # session_state.q_index) =>
              /\ ContinuePressed
              /\ session_state'.q_index = session_state.q_index + 1]_vars

C16_Witness ==
    /\ Started
    /\ last_event.type = "next"
    /\ session_state.stage = "primary"
    /\ session_state.q_index = Len(session_state.questions) - 1
    /\ session_state.q_index > 1

\* C17: the feedback on the page in stage next_q belongs to the question at
\* q_index and to the answers just taken for it: "correct" with that
\* question's explanation after a right primary answer, otherwise "good
\* recovery" or "also incorrect" (by the follow-up answer) with that
\* question's secondary_explanation; never a flag or an explanation left
\* from an earlier question.
C17_FeedbackBelongsToCurrentQuestion ==
    (screen.view = "next_q" /\ session_state.stage = "next_q") =>
        IF given.primary = "right"
        THEN /\ screen.feedback = "correct"
             /\ Has(Current, "explanation")
             /\ screen.explanation = Current.explanation
        ELSE /\ screen.feedback = IF given.secondary = "right"
                                  THEN "good recovery" ELSE "also incorrect"
             /\ Has(Current, "secondary_explanation")
             /\ screen.explanation = Current.secondary_explanation

\* the value that parse_ai_response gives for the generated text of the
\* response of the call
ParsedOfCall == parse_ai_response(GeneratedText(call.response.body).text).value

\* C18: when generate_questions_from_ai returns questions, the parsed array
\* has n >= 1 elements and the questions are its first min(n, 10) elements
\* in their order: between 1 and 10 questions, and never those of an empty
\* array.
C18_AcceptedIsFirstTen ==
    (Generated /\ ~returned.result.raised /\ returned.result.questions.t = "list") =>
        /\ ParsedOfCall.t = "list"
        /\ Len(ParsedOfCall.v) >= 1
        /\ Len(returned.result.questions.v) >= 1
        /\ Len(returned.result.questions.v) <= MaxQuestions
        /\ Len(returned.result.questions.v) <= Len(ParsedOfCall.v)
        /\ \/ Len(returned.result.questions.v) = Len(ParsedOfCall.v)
           \/ Len(returned.result.questions.v) = MaxQuestions
        /\ \A i \in 1..Len(returned.result.questions.v) :
               returned.result.questions.v[i] = ParsedOfCall.v[i]

C18_Witness ==
    /\ Generated
    /\ ~returned.result.raised
    /\ returned.result.questions.t = "list"
    /\ Len(ParsedOfCall.v) = MaxQuestions + 1
    /\ Len(returned.result.questions.v) = MaxQuestions

\* the step moved the attempt forward: to a later stage of the question in
\* play, to the next question, or to the results
Advanced ==
    \/ FinishedNext
    \/ session_state'.q_index > session_state.q_index
    \/ /\ session_state'.q_index = session_state.q_index
       /\ <<session_state.stage, session_state'.stage>> \in
              {<<"primary", "secondary">>, <<"primary", "next_q">>,
               <<"secondary", "next_q">>}

\* an offered option is submitted, or Next Question is pressed
LearnerMoves ==
    \/ PrimarySubmitted /\ last_event'.sel \in 1..Len(Current.options)
    \/ SecondarySubmitted /\ last_event'.sel \in 1..Len(Current.secondary_options)
    \/ ContinuePressed

\* C19: every submitted offered option and every Next Question is one
\* state-changing event that moves the attempt forward (so no two
\* unfinished states repeat), and an attempt over n questions is finished
\* after exactly 2n + w such events, w the number of primary questions
\* answered wrong.
C19_FinishedAfterTwoPerQuestionPlusWrong ==
    /\ []((Finished /\ Has(session_state, "questions")) =>
             events = Len(session_state.questions) + Len(session_state.questions)
                        + (Len(session_state.questions) - tally.correct))
    /\ [][(~Finished /\ LearnerMoves) =>
             (Advanced /\ events' = events + 1)]_vars

\* C20: the reward follows the absolute score, whatever the number of
\* questions: with fewer than 10 questions the results never show 30
\* minutes, even with every primary answer right, and with fewer than 8
\* questions they always show 0.
C20_ShortQuizzesMissTheTiers ==
    screen.view = "results" =>
        /\ FullCredit * Len(session_state.questions) < TopScore =>
               screen.minutes_won # TopMinutes
        /\ FullCredit * Len(session_state.questions) < PassScore =>
               screen.minutes_won = 0

C20_Witness ==
    /\ screen.view = "results"
    /\ Len(session_state.questions) = MaxQuestions - 1
    /\ tally.correct = Len(session_state.questions)
    /\ session_state.score = FullCredit * Len(session_state.questions)
    /\ screen.minutes_won = PassMinutes

=============================================================================
